---- MODULE Spec2Model ----
(***************************************************************************)
(* Model of the news-ingestion pipeline of src/scraper.py (with the tables *)
(* of src/config.py): the text helpers, the seven source scrapers, the     *)
(* coordinator ejecutar_scraping and the Excel-backed store.               *)
(*                                                                         *)
(* A text is a sequence of one-character strings.  An optional value       *)
(* (Python's None, a missing tag, a missing attribute) is the empty        *)
(* sequence <<>>, a present one the one-element sequence <<v>>.            *)
(***************************************************************************)
EXTENDS Integers, Sequences, FiniteSets, TLC

VARIABLES
  store,            \* the file at EXCEL_PATH
  pc,               \* position of ejecutar_scraping
  idx,              \* index of the next entry of `scrapers`
  df_existente,     \* rows loaded at step [1]
  urls_existentes,  \* the running set of known urls
  nuevas_noticias,  \* records admitted by the current run
  hoy,              \* the calendar day datetime.now() reports
  corridas,         \* number of runs started
  snapshot,         \* what the sites serve: Libre, or a fixed answer per source
  store_previo,     \* history: the file as the current run found it
  carga,            \* history: how the load of the current run went
  fin,              \* history: how the last run ended
  fin_previo,       \* history: how the run before it ended
  todas_fallan,     \* history: no source of this run has answered so far
  fallo_aporto,     \* history: a failing source changed the run's records
  intentos,         \* history: names of sources attempted in this run
  reporte,          \* what the last run printed at lines 498-499
  surgidas,         \* history: urls surfaced by the sources in this run
  crudo,            \* history: raw title and summary of the records admitted
  texto,            \* input of a text helper
  max_chars,        \* input of obtener_resumen
  salida            \* result of the text helper applied last

vars == <<store, pc, idx, df_existente, urls_existentes, nuevas_noticias, hoy,
          corridas, snapshot, store_previo, carga, fin, fin_previo, todas_fallan,
          fallo_aporto, intentos, reporte, surgidas, crudo, texto, max_chars,
          salida>>

coordinador == <<store, pc, idx, df_existente, urls_existentes, nuevas_noticias,
                 hoy, corridas, snapshot, store_previo, carga, fin, fin_previo,
                 todas_fallan, fallo_aporto, intentos, reporte, surgidas, crudo>>

ayudantes == <<texto, max_chars, salida>>

(***************************************************************************)
(* Bounds of the model.                                                    *)
(***************************************************************************)
MaxCorridas == 2     \* runs of ejecutar_scraping in one behaviour
MaxDias == 2         \* calendar days the behaviour spans
MaxFragmentos == 2   \* fragments concatenated into an input text
MaxChars == 9        \* largest max_chars tried on obtener_resumen
MaxArticulos == 2    \* containers of a page handed to one scraper on its own

(***************************************************************************)
(* src/config.py                                                           *)
(***************************************************************************)
TERMINOS_JUVENTUD ==
  << <<"j", "u", "v", "e", "n", "t", "u", "d">>,
     <<"j", "ó", "v", "e", "n", "e", "s">>,
     <<"j", "o", "v", "e", "n", "e", "s">>,
     <<"a", "d", "o", "l", "e", "s", "c", "e", "n", "t", "e", "s">>,
     <<"a", "d", "o", "l", "e", "s", "c", "e", "n", "c", "i", "a">>,
     <<"m", "e", "n", "o", "r", " ", "d", "e", " ", "e", "d", "a", "d">>,
     <<"m", "e", "n", "o", "r", "e", "s", " ", "d", "e", " ", "e", "d", "a", "d">>,
     <<"p", "a", "n", "d", "i", "l", "l", "a", "s">>,
     <<"i", "d", "i", "p", "r", "o", "n">>,
     <<"p", "l", "a", "t", "a", "f", "o", "r", "m", "a", "s", " ", "j", "u", "v", "e", "n", "i", "l", "e", "s">>,
     <<"p", "r", "i", "m", "e", "r", "a", " ", "i", "n", "f", "a", "n", "c", "i", "a">>,
     <<"n", "i", "ñ", "o", "s">>,
     <<"n", "i", "ñ", "a", "s">>,
     <<"i", "n", "f", "a", "n", "c", "i", "a">>,
     <<"j", "u", "v", "e", "n", "i", "l">>,
     <<"j", "u", "v", "e", "n", "i", "l", "e", "s">>,
     <<"e", "s", "t", "u", "d", "i", "a", "n", "t", "e", "s">>,
     <<"c", "o", "l", "e", "g", "i", "o", "s">>,
     <<"e", "s", "c", "o", "l", "a", "r">> >>

CIUDADES_COLOMBIA ==
  << <<<<"b", "o", "g", "o", "t", "á">>, "Bogotá">>,
     <<<<"b", "o", "g", "o", "t", "a">>, "Bogotá">>,
     <<<<"m", "e", "d", "e", "l", "l", "í", "n">>, "Medellín">>,
     <<<<"m", "e", "d", "e", "l", "l", "i", "n">>, "Medellín">>,
     <<<<"c", "a", "l", "i">>, "Cali">>,
     <<<<"b", "a", "r", "r", "a", "n", "q", "u", "i", "l", "l", "a">>, "Barranquilla">>,
     <<<<"c", "a", "r", "t", "a", "g", "e", "n", "a">>, "Cartagena">>,
     <<<<"b", "u", "c", "a", "r", "a", "m", "a", "n", "g", "a">>, "Bucaramanga">>,
     <<<<"p", "e", "r", "e", "i", "r", "a">>, "Pereira">>,
     <<<<"m", "a", "n", "i", "z", "a", "l", "e", "s">>, "Manizales">>,
     <<<<"s", "a", "n", "t", "a", " ", "m", "a", "r", "t", "a">>, "Santa Marta">>,
     <<<<"i", "b", "a", "g", "u", "é">>, "Ibagué">>,
     <<<<"i", "b", "a", "g", "u", "e">>, "Ibagué">>,
     <<<<"c", "ú", "c", "u", "t", "a">>, "Cúcuta">>,
     <<<<"c", "u", "c", "u", "t", "a">>, "Cúcuta">>,
     <<<<"v", "i", "l", "l", "a", "v", "i", "c", "e", "n", "c", "i", "o">>, "Villavicencio">>,
     <<<<"p", "a", "s", "t", "o">>, "Pasto">>,
     <<<<"n", "e", "i", "v", "a">>, "Neiva">>,
     <<<<"a", "r", "m", "e", "n", "i", "a">>, "Armenia">>,
     <<<<"m", "o", "n", "t", "e", "r", "í", "a">>, "Montería">>,
     <<<<"m", "o", "n", "t", "e", "r", "i", "a">>, "Montería">>,
     <<<<"v", "a", "l", "l", "e", "d", "u", "p", "a", "r">>, "Valledupar">>,
     <<<<"p", "o", "p", "a", "y", "á", "n">>, "Popayán">>,
     <<<<"p", "o", "p", "a", "y", "a", "n">>, "Popayán">>,
     <<<<"t", "u", "n", "j", "a">>, "Tunja">>,
     <<<<"s", "i", "n", "c", "e", "l", "e", "j", "o">>, "Sincelejo">>,
     <<<<"f", "l", "o", "r", "e", "n", "c", "i", "a">>, "Florencia">>,
     <<<<"q", "u", "i", "b", "d", "ó">>, "Quibdó">>,
     <<<<"q", "u", "i", "b", "d", "o">>, "Quibdó">>,
     <<<<"r", "i", "o", "h", "a", "c", "h", "a">>, "Riohacha">>,
     <<<<"y", "o", "p", "a", "l">>, "Yopal">>,
     <<<<"l", "e", "t", "i", "c", "i", "a">>, "Leticia">>,
     <<<<"m", "o", "c", "o", "a">>, "Mocoa">>,
     <<<<"a", "r", "a", "u", "c", "a">>, "Arauca">>,
     <<<<"m", "i", "t", "ú">>, "Mitú">>,
     <<<<"m", "i", "t", "u">>, "Mitú">>,
     <<<<"p", "u", "e", "r", "t", "o", " ", "c", "a", "r", "r", "e", "ñ", "o">>, "Puerto Carreño">>,
     <<<<"s", "a", "n", " ", "a", "n", "d", "r", "é", "s">>, "San Andrés">>,
     <<<<"s", "a", "n", " ", "a", "n", "d", "r", "e", "s">>, "San Andrés">>,
     <<<<"i", "n", "í", "r", "i", "d", "a">>, "Inírida">>,
     <<<<"i", "n", "i", "r", "i", "d", "a">>, "Inírida">>,
     <<<<"c", "o", "l", "o", "m", "b", "i", "a">>, "Colombia">> >>
(***************************************************************************)
(* Strings.                                                                *)
(***************************************************************************)
Espacios == {" ", "\t", "\n"}

Minuscula ==
  [c \in {"A", "B", "C", "D", "E", "F", "G", "H", "I", "J", "K", "L", "M", "N",
          "O", "P", "Q", "R", "S", "T", "U", "V", "W", "X", "Y", "Z",
          "Á", "É", "Í", "Ó", "Ú", "Ñ"} |->
     CASE c = "A" -> "a" [] c = "B" -> "b" [] c = "C" -> "c" [] c = "D" -> "d"
       [] c = "E" -> "e" [] c = "F" -> "f" [] c = "G" -> "g" [] c = "H" -> "h"
       [] c = "I" -> "i" [] c = "J" -> "j" [] c = "K" -> "k" [] c = "L" -> "l"
       [] c = "M" -> "m" [] c = "N" -> "n" [] c = "O" -> "o" [] c = "P" -> "p"
       [] c = "Q" -> "q" [] c = "R" -> "r" [] c = "S" -> "s" [] c = "T" -> "t"
       [] c = "U" -> "u" [] c = "V" -> "v" [] c = "W" -> "w" [] c = "X" -> "x"
       [] c = "Y" -> "y" [] c = "Z" -> "z" [] c = "Á" -> "á" [] c = "É" -> "é"
       [] c = "Í" -> "í" [] c = "Ó" -> "ó" [] c = "Ú" -> "ú" [] c = "Ñ" -> "ñ"]

\* str.lower()
lower(s) ==
  [i \in 1..Len(s) |-> IF s[i] \in DOMAIN Minuscula THEN Minuscula[s[i]] ELSE s[i]]

\* Python's `sub in s` on strings
en(sub, s) ==
  \E i \in 0..(Len(s) - Len(sub)) : SubSeq(s, i + 1, i + Len(sub)) = sub

\* str.strip()
RECURSIVE lstrip(_)
lstrip(s) ==
  IF s # <<>> /\ Head(s) \in Espacios THEN lstrip(Tail(s)) ELSE s

RECURSIVE rstrip(_)
rstrip(s) ==
  IF s # <<>> /\ s[Len(s)] \in Espacios THEN rstrip(SubSeq(s, 1, Len(s) - 1)) ELSE s

strip(s) == rstrip(lstrip(s))

\* re.sub(r'\s+', ' ', s): every maximal run of whitespace becomes one space
RECURSIVE re_sub_espacios(_)
re_sub_espacios(s) ==
  IF s = <<>> THEN <<>>
  ELSE IF Head(s) \in Espacios
       THEN <<" ">> \o re_sub_espacios(lstrip(Tail(s)))
       ELSE <<Head(s)>> \o re_sub_espacios(Tail(s))

\* s.rsplit(' ', 1)[0]: s up to its last space, or all of s when it has none
rsplit_primero(s) ==
  LET donde == {i \in 1..Len(s) : s[i] = " "}
  IN  IF donde = {} THEN s
      ELSE SubSeq(s, 1, (CHOOSE i \in donde : \A j \in donde : j <= i) - 1)

(***************************************************************************)
(* The text helpers of src/scraper.py.                                     *)
(***************************************************************************)
contiene_terminos_juventud(t) ==
  IF t = <<>> THEN FALSE
  ELSE LET texto_lower == lower(t)
       IN  \E k \in 1..Len(TERMINOS_JUVENTUD) :
             en(lower(TERMINOS_JUVENTUD[k]), texto_lower)

\* the for loop of detectar_ciudad from entry k on: the name it returns, or
\* "" when it runs to its end
RECURSIVE bucle_ciudades(_, _)
bucle_ciudades(texto_lower, k) ==
  IF k > Len(CIUDADES_COLOMBIA) THEN ""
  ELSE LET ciudad_key == CIUDADES_COLOMBIA[k][1]
           ciudad_nombre == CIUDADES_COLOMBIA[k][2]
       IN  IF en(ciudad_key, texto_lower) /\ ciudad_nombre # "Colombia"
           THEN ciudad_nombre
           ELSE bucle_ciudades(texto_lower, k + 1)

Colombia == <<"c", "o", "l", "o", "m", "b", "i", "a">>

detectar_ciudad_generica_primero(t) ==
  IF t = <<>> THEN "Sin identificar"
  ELSE LET texto_lower == lower(t)
       IN  IF en(Colombia, texto_lower) THEN "Colombia"
           ELSE LET hallada == bucle_ciudades(texto_lower, 1)
                IN  IF hallada # "" THEN hallada ELSE "Sin identificar"

detectar_ciudad(t) ==
  IF t = <<>> THEN "Sin identificar"
  ELSE LET texto_lower == lower(t)
           hallada == bucle_ciudades(texto_lower, 1)
       IN  IF hallada # "" THEN hallada
           ELSE IF en(Colombia, texto_lower) THEN "Colombia"
           ELSE "Sin identificar"

limpiar_texto(t) ==
  IF t = <<>> THEN <<>> ELSE strip(re_sub_espacios(t))

Elipsis == <<".", ".", ".">>

obtener_resumen_corte_largo(t, max) ==
  LET limpio == limpiar_texto(t)
  IN  IF Len(limpio) <= max THEN limpio
      ELSE rsplit_primero(SubSeq(limpio, 1, max + 1)) \o Elipsis

obtener_resumen(t, max) ==
  LET limpio == limpiar_texto(t)
  IN  IF Len(limpio) <= max THEN limpio
      ELSE rsplit_primero(SubSeq(limpio, 1, max)) \o Elipsis

(***************************************************************************)
(* The store: the Excel file at EXCEL_PATH and the DataFrame read from it. *)
(* A DataFrame is its column names and its rows; a row is a record over    *)
(* the columns.  pd.read_excel and DataFrame.to_excel are taken at their   *)
(* contract: what was written is what is read.  `fecha` is the day number  *)
(* of the '%Y-%m-%d' string, which orders the same way.                    *)
(***************************************************************************)
columnas == <<"fecha", "titulo", "fuente", "ciudad", "url", "resumen">>

DataFrame(cols, filas) == [columnas |-> cols, filas |-> filas]

Ausente == [estado |-> "ausente"]
Libro(df) == [estado |-> "libro", columnas |-> df.columnas, filas |-> df.filas]

Rango(s) == {s[i] : i \in 1..Len(s)}

\* the rows of the file, none when there is no file
filas_de(archivo) == IF archivo.estado = "libro" THEN archivo.filas ELSE <<>>

con_ciudad_vacia(df) ==
  DataFrame(Append(df.columnas, "ciudad"),
            [i \in 1..Len(df.filas) |->
               [c \in DOMAIN df.filas[i] \cup {"ciudad"} |->
                  IF c = "ciudad" THEN "" ELSE df.filas[i][c]]])

\* df['ciudad'] = "Sin identificar"
con_ciudad(df) ==
  DataFrame(Append(df.columnas, "ciudad"),
            [i \in 1..Len(df.filas) |->
               [c \in DOMAIN df.filas[i] \cup {"ciudad"} |->
                  IF c = "ciudad" THEN "Sin identificar" ELSE df.filas[i][c]]])

\* lectura: "ok" when pd.read_excel returns, "Exception" when it raises
cargar_excel_existente(archivo, lectura) ==
  IF archivo.estado # "ausente" /\ lectura = "ok"
  THEN LET df == DataFrame(archivo.columnas, archivo.filas)
       IN  IF "ciudad" \notin Rango(df.columnas) THEN con_ciudad(df) ELSE df
  ELSE DataFrame(columnas, <<>>)

\* df[columnas]: the six columns, in this order
seleccionar(df) ==
  DataFrame(columnas,
            [i \in 1..Len(df.filas) |-> [c \in Rango(columnas) |-> df.filas[i][c]]])

\* escritura: "ok" when to_excel returns; "Exception" when makedirs, the
\* column selection or to_excel raises before the file is replaced, and the
\* exception leaves guardar_excel
guardar_excel(df, escritura, archivo) ==
  IF escritura = "ok" THEN Libro(seleccionar(df)) ELSE archivo

(***************************************************************************)
(* A fetched page.  The parse boundary is abstract: a page is the list     *)
(* `articulos` the selectors yield, and a container is what the scrapers   *)
(* read of it:                                                             *)
(*   name    art.name                                                      *)
(*   href    art's own href attribute (a container that is an anchor)      *)
(*   a       the first descendant <a href=...>: its href and its text      *)
(*   h       the first h2/h3/h4                                            *)
(*   span    the first span                                                *)
(*   clase   the first h2/h3/h4/span/div whose class matches               *)
(*           title|headline                                                *)
(*   p       the first p                                                   *)
(*   roto    reading the container raises                                  *)
(* An href is its string and whether the string starts with 'http'.        *)
(***************************************************************************)
Href(s, http) == [s |-> s, http |-> http]

Contenedor(name, href, a, h, span, clase, p, roto) ==
  [name |-> name, href |-> href, a |-> a, h |-> h, span |-> span,
   clase |-> clase, p |-> p, roto |-> roto]

Enlace(href, t) == <<[href |-> href, texto |-> t]>>

\* <article><a href="https://x/1">ver</a><h2> Jóvenes marchan en Bogotá </h2>
\* <p>Cientos de  jóvenes\nen la plaza</p></article>
ArtJovenes ==
  Contenedor("article", <<>>, Enlace(Href("https://x/1", TRUE), <<"v", "e", "r">>),
             <<<<" ", "J", "ó", "v", "e", "n", "e", "s", " ", "m", "a", "r", "c", "h", "a", "n", " ", "e", "n", " ", "B", "o", "g", "o", "t", "á", " ">>>>, <<>>, <<>>,
             <<<<"C", "i", "e", "n", "t", "o", "s", " ", "d", "e", " ", " ", "j", "ó", "v", "e", "n", "e", "s", "\n", "e", "n", " ", "l", "a", " ", "p", "l", "a", "z", "a">>>>, FALSE)

\* an empty heading over a relevant summary
ArtSinTitulo ==
  Contenedor("article", <<>>, Enlace(Href("https://x/1", TRUE), <<>>),
             <<<<>>>>, <<>>, <<>>,
             <<<<"E", "s", "t", "u", "d", "i", "a", "n", "t", "e", "s", " ", "d", "e", " ", "M", "e", "d", "e", "l", "l", "í", "n", ",", " ", "C", "o", "l", "o", "m", "b", "i", "a">>>>, FALSE)

\* no term of the list in title or summary
ArtFutbol ==
  Contenedor("article", <<>>, Enlace(Href("/nota/3", FALSE), <<"l", "e", "e", "r">>),
             <<<<"R", "e", "s", "u", "l", "t", "a", "d", "o", "s", " ", "d", "e", "l", " ", "p", "a", "r", "t", "i", "d", "o", " ", "d", "e", " ", "f", "ú", "t", "b", "o", "l">>>>, <<>>, <<>>, <<>>, FALSE)

\* no <a href=...> inside
ArtSinEnlace ==
  Contenedor("article", <<>>, <<>>, <<<<"N", "i", "ñ", "o", "s", " ", "s", "i", "n", " ", "e", "n", "l", "a", "c", "e">>>>, <<>>, <<>>,
             <<>>, FALSE)

\* a malformed subtree
ArtRoto ==
  Contenedor("article", <<>>, Enlace(Href("https://x/1", TRUE), <<"x">>),
             <<>>, <<>>, <<>>, <<>>, TRUE)

\* no heading: the link's text is the title; the url of ArtJovenes
ArtColegios ==
  Contenedor("div", <<>>, Enlace(Href("https://x/1", TRUE), <<"C", "o", "l", "e", "g", "i", "o", "s", " ", "d", "e", " ", "C", "a", "l", "i">>),
             <<>>, <<>>, <<>>, <<>>, FALSE)

\* a relative link and no city in the text
ArtPandillas ==
  Contenedor("article", <<>>, Enlace(Href("/nota/1", FALSE), <<"i", "r">>),
             <<<<"P", "a", "n", "d", "i", "l", "l", "a", "s", " ", "j", "u", "v", "e", "n", "i", "l", "e", "s">>>>, <<>>, <<<<"A", "l", "e", "r", "t", "a", " ", "p", "o", "r", " ", "p", "a", "n", "d", "i", "l", "l", "a", "s">>>>,
             <<>>, FALSE)

\* a container that is itself an anchor, without href
AnclaSinHref ==
  Contenedor("a", <<>>, <<>>, <<>>, <<<<"N", "i", "ñ", "a", "s", " ", "d", "e", "l", " ", "c", "o", "l", "e", "g", "i", "o">>>>, <<>>, <<>>, FALSE)

\* a term of the list split between the heading and the summary
ArtMenor ==
  Contenedor("article", <<>>, Enlace(Href("https://x/2", TRUE), <<"v", "e", "r">>),
             <<<<"C", "a", "p", "t", "u", "r", "a", "n", " ", "a", " ", "m", "e", "n", "o", "r">>>>, <<>>, <<>>,
             <<<<"d", "e", " ", "e", "d", "a", "d", " ", "e", "n", " ", "C", "a", "l", "i">>>>, FALSE)

\* <article><a href="">ver</a><h2>Niños sin destino</h2></article>
ArtHrefVacio ==
  Contenedor("article", <<>>, Enlace(Href("", FALSE), <<"v", "e", "r">>),
             <<<<"N", "i", "ñ", "o", "s", " ", "s", "i", "n", " ", "d", "e", "s", "t", "i", "n", "o">>>>, <<>>, <<>>, <<>>, FALSE)

\* <a class="story-card" href=""><span>Juventud rural</span></a>
AnclaHrefVacio ==
  Contenedor("a", <<Href("", FALSE)>>, <<>>, <<>>, <<<<"J", "u", "v", "e", "n", "t", "u", "d", " ", "r", "u", "r", "a", "l">>>>, <<>>, <<>>, FALSE)

\* <a class="story-card" href="/nota/7"><h2>Estudiantes en Pasto</h2></a>
AnclaConHref ==
  Contenedor("a", <<Href("/nota/7", FALSE)>>, <<>>, <<<<"E", "s", "t", "u", "d", "i", "a", "n", "t", "e", "s", " ", "e", "n", " ", "P", "a", "s", "t", "o">>>>, <<>>, <<>>, <<>>, FALSE)

PagA == <<ArtSinEnlace, ArtJovenes, ArtFutbol>>
PagB == <<ArtRoto, ArtSinTitulo, ArtColegios>>
PagC == <<ArtPandillas>>
PagD == <<ArtFutbol>>
PagE == <<ArtSinEnlace, ArtRoto>>
PagI == <<AnclaSinHref>>

Ok(articulos) == [tipo |-> "ok", articulos |-> articulos]
Falla(tipo) == [tipo |-> tipo]

(***************************************************************************)
(* The scrapers.                                                           *)
(***************************************************************************)
\* None on requests.RequestException, the response otherwise; any other
\* exception leaves hacer_request
hacer_request(respuesta) ==
  IF respuesta.tipo = "RequestException" THEN <<>> ELSE <<respuesta>>

\* urljoin(base, s) for the s of the model: empty, or a path from the root
urljoin(base, s) == IF s = "" THEN base ELSE base \o s

\* tag.get_text(strip=True) if tag else ''
get_text(tag) == IF tag = <<>> THEN <<>> ELSE strip(tag[1])

CapArticulos == 50

\* what the body of the for loop has computed when it reaches the filter:
\* saltar when it took `continue` or raised, else href, titulo and resumen.
\* variante: "comun", "caracol" (class-matched title first), "infobae"
\* (anchor containers), "alerta" (Bogotá by default)
locales(base, variante, art) ==
  LET ancla == variante = "infobae" /\ art.name = "a"
      link_tag == art.a
      href0 == IF ancla
               THEN (IF art.href = <<>> THEN Href("", FALSE) ELSE art.href[1])
               ELSE link_tag[1].href
      titulo_tag ==
        IF ancla THEN (IF art.h # <<>> THEN art.h ELSE art.span)
        ELSE IF variante = "caracol" /\ art.clase # <<>> THEN art.clase
        ELSE IF art.h # <<>> THEN art.h
        ELSE <<link_tag[1].texto>>
  IN  IF art.roto \/ (~ancla /\ link_tag = <<>>)
      THEN [saltar |-> TRUE]
      ELSE [saltar |-> FALSE,
            href |-> IF href0.http THEN href0.s ELSE urljoin(base, href0.s),
            titulo |-> get_text(titulo_tag),
            resumen |-> get_text(art.p)]

filtro_sin_filtro(titulo, resumen) == TRUE

filtro_solo_titulo(titulo, resumen) == contiene_terminos_juventud(titulo)

\* FILTRO ESTRICTO
filtro(titulo, resumen) ==
  contiene_terminos_juventud(titulo) \/ contiene_terminos_juventud(resumen)

ResumenMax == 250

noticia_sin_defecto(fuente, variante, l, fecha) ==
  [fecha |-> fecha,
   titulo |-> limpiar_texto(l.titulo),
   fuente |-> fuente,
   ciudad |-> detectar_ciudad(l.titulo \o <<" ">> \o l.resumen),
   url |-> l.href,
   resumen |-> IF l.resumen # <<>>
               THEN obtener_resumen(l.resumen, ResumenMax) ELSE <<>>]

\* the dict appended to noticias
noticia(fuente, variante, l, fecha) ==
  LET texto_completo == l.titulo \o <<" ">> \o l.resumen
      ciudad == detectar_ciudad(texto_completo)
  IN  [fecha |-> fecha,
       titulo |-> limpiar_texto(l.titulo),
       fuente |-> fuente,
       ciudad |-> IF variante = "alerta" /\ ciudad = "Sin identificar"
                  THEN "Bogotá" ELSE ciudad,
       url |-> l.href,
       resumen |-> IF l.resumen # <<>>
                   THEN obtener_resumen(l.resumen, ResumenMax) ELSE <<>>]

\* the containers of articulos[:50] that reach noticias.append, in order
RECURSIVE admitidos(_, _, _)
admitidos(base, variante, articulos) ==
  IF articulos = <<>> THEN <<>>
  ELSE LET l == locales(base, variante, Head(articulos))
           resto == admitidos(base, variante, Tail(articulos))
       IN  IF ~l.saltar /\ filtro(l.titulo, l.resumen) THEN <<l>> \o resto
           ELSE resto

\* the containers of articulos[:50] that reach the filter, in order: the
\* title and the summary read of each
RECURSIVE extraidos(_, _, _)
extraidos(base, variante, articulos) ==
  IF articulos = <<>> THEN <<>>
  ELSE LET l == locales(base, variante, Head(articulos))
           resto == extraidos(base, variante, Tail(articulos))
       IN  IF ~l.saltar THEN <<[titulo |-> l.titulo, resumen |-> l.resumen]>> \o resto
           ELSE resto

\* a scraper: excepcion when an exception leaves it, else the list it returns
scrape(fuente, base, variante, respuesta, fecha) ==
  IF respuesta.tipo = "Exception"
  THEN [excepcion |-> TRUE, noticias |-> <<>>, crudos |-> <<>>, candidatos |-> <<>>]
  ELSE IF hacer_request(respuesta) = <<>>
  THEN [excepcion |-> FALSE, noticias |-> <<>>, crudos |-> <<>>, candidatos |-> <<>>]
  ELSE LET articulos == respuesta.articulos
           primeros == SubSeq(articulos, 1,
                              IF Len(articulos) < CapArticulos
                              THEN Len(articulos) ELSE CapArticulos)
           ls == admitidos(base, variante, primeros)
       IN  [excepcion |-> FALSE,
            candidatos |-> extraidos(base, variante, primeros),
            noticias |-> [i \in 1..Len(ls) |-> noticia(fuente, variante, ls[i], fecha)],
            crudos |-> [i \in 1..Len(ls) |->
                          [titulo |-> ls[i].titulo, resumen |-> ls[i].resumen]]]

scrape_bluradio(respuesta, fecha) ==
  scrape("Blu Radio", "https://www.bluradio.com", "comun", respuesta, fecha)

scrape_caracol(respuesta, fecha) ==
  scrape("Noticias Caracol", "https://www.noticiascaracol.com", "caracol",
         respuesta, fecha)

scrape_pulzo(respuesta, fecha) ==
  scrape("Pulzo", "https://www.pulzo.com", "comun", respuesta, fecha)

scrape_infobae(respuesta, fecha) ==
  scrape("Infobae", "https://www.infobae.com", "infobae", respuesta, fecha)

scrape_alertabogota(respuesta, fecha) ==
  scrape("Alerta Bogotá", "https://www.alertabogota.com", "alerta", respuesta, fecha)

scrape_redmas(respuesta, fecha) ==
  scrape("Red+", "https://redmas.com.co", "comun", respuesta, fecha)

scrape_diarioadn(respuesta, fecha) ==
  scrape("Diario ADN", "https://www.diarioadn.co", "comun", respuesta, fecha)

(***************************************************************************)
(* ejecutar_scraping.                                                      *)
(***************************************************************************)
scrapers ==
  <<"Blu Radio", "Noticias Caracol", "Alerta Bogotá", "Red+", "Pulzo",
    "Infobae", "Diario ADN">>

scraper_func(i, respuesta, fecha) ==
  CASE i = 1 -> scrape_bluradio(respuesta, fecha)
    [] i = 2 -> scrape_caracol(respuesta, fecha)
    [] i = 3 -> scrape_alertabogota(respuesta, fecha)
    [] i = 4 -> scrape_redmas(respuesta, fecha)
    [] i = 5 -> scrape_pulzo(respuesta, fecha)
    [] i = 6 -> scrape_infobae(respuesta, fecha)
    [] i = 7 -> scrape_diarioadn(respuesta, fecha)

urls_de(filas) == {filas[i].url : i \in 1..Len(filas)}

urls_iniciales_vacio(df) == {}

\* set(df_existente['url'].tolist()) if not df_existente.empty else set()
urls_iniciales(df) == IF df.filas # <<>> THEN urls_de(df.filas) ELSE {}

RECURSIVE bucle_noticias_sin_registrar(_, _, _)
bucle_noticias_sin_registrar(noticias, urls, nuevas) ==
  IF noticias = <<>> THEN [urls |-> urls, nuevas |-> nuevas]
  ELSE LET n == Head(noticias)
       IN  IF n.url \notin urls
           THEN bucle_noticias_sin_registrar(Tail(noticias), urls, Append(nuevas, n))
           ELSE bucle_noticias_sin_registrar(Tail(noticias), urls, nuevas)

\* for noticia in noticias: admit the ones whose url is not known yet
RECURSIVE bucle_noticias(_, _, _)
bucle_noticias(noticias, urls, nuevas) ==
  IF noticias = <<>> THEN [urls |-> urls, nuevas |-> nuevas]
  ELSE LET n == Head(noticias)
       IN  IF n.url \notin urls
           THEN bucle_noticias(Tail(noticias), urls \cup {n.url}, Append(nuevas, n))
           ELSE bucle_noticias(Tail(noticias), urls, nuevas)

iteracion_sin_try(r, urls, nuevas) ==
  IF r.excepcion THEN [aborta |-> TRUE, urls |-> urls, nuevas |-> nuevas]
  ELSE [aborta |-> FALSE] @@ bucle_noticias(r.noticias, urls, nuevas)

\* one pass of the for loop over scrapers, r being what scraper_func did: the
\* try block, and the except that keeps an exception from leaving the loop
iteracion(r, urls, nuevas) ==
  IF r.excepcion THEN [aborta |-> FALSE, urls |-> urls, nuevas |-> nuevas]
  ELSE [aborta |-> FALSE] @@ bucle_noticias(r.noticias, urls, nuevas)

\* pd.concat([df_existente, df_nuevas], ignore_index=True)
concat(df1, df2) ==
  DataFrame(df1.columnas \o SelectSeq(df2.columnas, LAMBDA c : c \notin Rango(df1.columnas)),
            df1.filas \o df2.filas)

drop_duplicates_nada(filas) == filas

drop_duplicates_last(filas) ==
  LET queda == {i \in 1..Len(filas) :
                  \A j \in (i + 1)..Len(filas) : filas[j].url # filas[i].url}
      f[i \in 0..Len(filas)] ==
        IF i = 0 THEN <<>>
        ELSE IF i \in queda THEN Append(f[i - 1], filas[i]) ELSE f[i - 1]
  IN  f[Len(filas)]

\* drop_duplicates(subset=['url'], keep='first')
drop_duplicates(filas) ==
  LET queda == {i \in 1..Len(filas) :
                  \A j \in 1..(i - 1) : filas[j].url # filas[i].url}
      f[i \in 0..Len(filas)] ==
        IF i = 0 THEN <<>>
        ELSE IF i \in queda THEN Append(f[i - 1], filas[i]) ELSE f[i - 1]
  IN  f[Len(filas)]

sort_values_nada(filas) == {filas}

\* sort_values('fecha', ascending=False): the sort is not stable, so every
\* arrangement with the dates descending is a possible result
sort_values(filas) ==
  LET n == Len(filas)
      perms == {p \in [1..n -> 1..n] :
                  /\ \A i, j \in 1..n : i # j => p[i] # p[j]
                  /\ \A i \in 1..(n - 1) : filas[p[i]].fecha >= filas[p[i + 1]].fecha}
  IN  {[i \in 1..n |-> filas[p[i]]] : p \in perms}

\* steps [3] and [4] up to guardar_excel: the frames df_final may be
df_finales(existente, nuevas) ==
  LET df_nuevas == DataFrame(columnas, nuevas)
      df_final == IF nuevas # <<>> THEN concat(existente, df_nuevas) ELSE existente
  IN  {DataFrame(df_final.columnas, filas) :
         filas \in sort_values(drop_duplicates(df_final.filas))}

(***************************************************************************)
(* The environment: the file the first run finds and what the sites serve. *)
(***************************************************************************)
Fila(fecha, titulo, fuente, ciudad, url, resumen) ==
  [fecha |-> fecha, titulo |-> titulo, fuente |-> fuente, ciudad |-> ciudad,
   url |-> url, resumen |-> resumen]

FilaPulzo ==
  Fila(1, <<"N", "i", "ñ", "o", "s", " ", "e", "n", " ", "C", "a", "l", "i">>, "Pulzo", "Cali", "https://x/1", <<>>)

FilaInfobae ==
  Fila(1, <<"J", "ó", "v", "e", "n", "e", "s">>, "Infobae", "Sin identificar", "https://x/1", <<"N", "o", "t", "a">>)

FilaVieja ==
  [fecha |-> 1, titulo |-> <<"C", "o", "l", "e", "g", "i", "o", "s">>, fuente |-> "Red+",
   url |-> "https://x/1", resumen |-> <<>>]

ArchivosIniciales ==
  { Ausente,
    Libro(DataFrame(columnas, <<FilaPulzo>>)),
    \* the same url twice, left by an earlier version or edited by hand
    Libro(DataFrame(columnas, <<FilaPulzo, FilaInfobae>>)),
    \* written before the ciudad column existed
    Libro(DataFrame(<<"fecha", "titulo", "fuente", "url", "resumen">>, <<FilaVieja>>)) }

\* what source i may answer to its fetch
Respuestas(i) ==
  {Falla("RequestException"), Falla("Exception")} \cup
  ( CASE i = 1 -> {Ok(PagA)}
      [] i = 2 -> {Ok(PagB)}
      [] i = 3 -> {Ok(PagC)}
      [] i = 4 -> {Ok(PagD)}
      [] i = 5 -> {Ok(PagE)}
      [] i = 6 -> {Ok(PagI)}
      [] i = 7 -> {Ok(PagD)} )

\* scraper_func is a function of the answer and the day: its graph
resultados ==
  [i \in 1..Len(scrapers) |->
     [respuesta \in Respuestas(i) |->
        [fecha \in 1..MaxDias |-> scraper_func(i, respuesta, fecha)]]]

\* no fixed snapshot: every fetch sees what the site serves at that moment
Libre == <<>>

Responde(i) == IF snapshot = Libre THEN Respuestas(i) ELSE {snapshot[i]}

(***************************************************************************)
(* A scraper on its own: the pages its selectors can yield.  Only Infobae  *)
(* selects anchors, and then every container of the page is one.           *)
(***************************************************************************)
Articulos ==
  {ArtJovenes, ArtSinTitulo, ArtFutbol, ArtSinEnlace, ArtRoto, ArtColegios,
   ArtPandillas, ArtMenor, ArtHrefVacio}

Anclas == {AnclaSinHref, AnclaHrefVacio, AnclaConHref}

RECURSIVE Listas(_, _)
Listas(S, n) ==
  IF n = 0 THEN {<<>>}
  ELSE Listas(S, n - 1) \cup {Append(l, a) : l \in Listas(S, n - 1), a \in S}

Paginas(i) ==
  Listas(Articulos, MaxArticulos) \cup
  (IF scrapers[i] = "Infobae" THEN Listas(Anclas, MaxArticulos) ELSE {})

(***************************************************************************)
(* The text helpers on their own: inputs drawn from a bounded set.         *)
(***************************************************************************)
Fragmentos ==
  { <<"M", "e", "d", "e", "l", "l", "í", "n">>, <<" ", "c", "o", "l", "o", "m", "b", "i", "a">>, <<"l", "o", "c", "a", "l", "i", "d", "a", "d">>, <<"B", "O", "G", "O", "T", "A", " ">>,
    <<"d", "e", " ", "C", "a", "l", "i">>, <<" ", "\n", "\t">>, <<"a", " ", "b">>, <<>> }

RECURSIVE Concatenaciones(_)
Concatenaciones(n) ==
  IF n = 0 THEN {<<>>}
  ELSE {a \o b : a \in Fragmentos, b \in Concatenaciones(n - 1)}

Textos == Concatenaciones(MaxFragmentos)

Ninguna == [op |-> "ninguna"]

(***************************************************************************)
(* Initial states.                                                         *)
(***************************************************************************)
InitCoordinador ==
  /\ store \in ArchivosIniciales
  /\ pc = "inicio"
  /\ idx = 1
  /\ df_existente = DataFrame(columnas, <<>>)
  /\ urls_existentes = {}
  /\ nuevas_noticias = <<>>
  /\ hoy = 1
  /\ corridas = 0
  /\ store_previo = store
  /\ carga = "ninguna"
  /\ fin = "ninguna"
  /\ fin_previo = "ninguna"
  /\ todas_fallan = TRUE
  /\ fallo_aporto = FALSE
  /\ intentos = <<>>
  /\ reporte = [total |-> 0, nuevas |-> 0]
  /\ surgidas = {}
  /\ crudo = {}

InitAyudantes ==
  /\ texto = <<>>
  /\ max_chars = ResumenMax
  /\ salida = Ninguna

Init == InitCoordinador /\ InitAyudantes /\ snapshot = Libre

\* the snapshots tried: any set of sources down, all of them the same way
Instantaneas ==
  {[i \in 1..Len(scrapers) |->
      IF i \in caidas THEN Falla(tipo) ELSE CHOOSE r \in Respuestas(i) : r.tipo = "ok"] :
     caidas \in SUBSET (1..Len(scrapers)), tipo \in {"RequestException", "Exception"}}

InitSnapshot ==
  /\ InitCoordinador
  /\ InitAyudantes
  /\ snapshot \in Instantaneas

\* the first run finds no file
InitVacio == Init /\ store = Ausente

\* a scraper on its own, on the first day
InitExtraccion == InitVacio

InitTexto ==
  /\ InitCoordinador
  /\ store = Ausente
  /\ snapshot = Libre
  /\ texto \in Textos
  /\ max_chars \in 0..MaxChars
  /\ salida = Ninguna

(***************************************************************************)
(* Actions.                                                                *)
(***************************************************************************)
\* step [1]: lines 434-445; the day is the one the run starts on
Cargar ==
  /\ pc = "inicio"
  /\ corridas < MaxCorridas
  /\ \E lectura \in {"ok", "Exception"} :
       /\ store.estado = "ausente" => lectura = "ok"
       /\ LET df == cargar_excel_existente(store, lectura)
          IN  /\ df_existente' = df
              /\ urls_existentes' = urls_iniciales(df)
       /\ carga' = IF store.estado = "ausente" THEN "ausente" ELSE lectura
  /\ nuevas_noticias' = <<>>
  /\ idx' = 1
  /\ pc' = "scrapers"
  /\ corridas' = corridas + 1
  /\ store_previo' = store
  /\ fin_previo' = fin
  /\ fin' = "en curso"
  /\ todas_fallan' = TRUE
  /\ fallo_aporto' = FALSE
  /\ intentos' = <<>>
  /\ surgidas' = {}
  /\ \E dia \in hoy..MaxDias : hoy' = dia
  /\ UNCHANGED <<store, snapshot, reporte, crudo>>
  /\ UNCHANGED ayudantes

Iterar_guardando ==
  /\ pc = "scrapers"
  /\ idx <= Len(scrapers)
  /\ \E respuesta \in Responde(idx) :
       LET r == resultados[idx][respuesta][hoy]
           it == iteracion(r, urls_existentes, nuevas_noticias)
           agregadas == {i \in 1..Len(r.noticias) :
                           /\ r.noticias[i].url \notin urls_existentes
                           /\ \A j \in 1..(i - 1) : r.noticias[j].url # r.noticias[i].url}
       IN  /\ urls_existentes' = it.urls
           /\ nuevas_noticias' = it.nuevas
           /\ store' = guardar_excel(concat(df_existente, DataFrame(columnas, it.nuevas)),
                                     "ok", store)
           /\ intentos' = Append(intentos, scrapers[idx])
           /\ todas_fallan' = (todas_fallan /\ respuesta.tipo # "ok")
           /\ fallo_aporto' = (\/ fallo_aporto
                               \/ /\ respuesta.tipo # "ok"
                                  /\ \/ it.nuevas # nuevas_noticias
                                     \/ it.urls # urls_existentes)
           /\ surgidas' = surgidas \cup urls_de(r.noticias)
           /\ crudo' = crudo \cup
                {[noticia |-> r.noticias[i], titulo |-> r.crudos[i].titulo,
                  resumen |-> r.crudos[i].resumen] : i \in agregadas}
           /\ pc' = IF idx = Len(scrapers) THEN "combinar" ELSE "scrapers"
           /\ fin' = fin
           /\ idx' = idx + 1
  /\ UNCHANGED <<df_existente, hoy, corridas, snapshot, store_previo,
                 carga, fin_previo, reporte>>
  /\ UNCHANGED ayudantes

\* step [2]: one pass of the loop of lines 459-473
Iterar ==
  /\ pc = "scrapers"
  /\ idx <= Len(scrapers)
  /\ \E respuesta \in Responde(idx) :
       LET r == resultados[idx][respuesta][hoy]
           it == iteracion(r, urls_existentes, nuevas_noticias)
           agregadas == {i \in 1..Len(r.noticias) :
                           /\ r.noticias[i].url \notin urls_existentes
                           /\ \A j \in 1..(i - 1) : r.noticias[j].url # r.noticias[i].url}
       IN  /\ urls_existentes' = it.urls
           /\ nuevas_noticias' = it.nuevas
           /\ intentos' = Append(intentos, scrapers[idx])
           /\ todas_fallan' = (todas_fallan /\ respuesta.tipo # "ok")
           /\ fallo_aporto' = (\/ fallo_aporto
                               \/ /\ respuesta.tipo # "ok"
                                  /\ \/ it.nuevas # nuevas_noticias
                                     \/ it.urls # urls_existentes)
           /\ surgidas' = surgidas \cup urls_de(r.noticias)
           /\ crudo' = crudo \cup
                {[noticia |-> r.noticias[i], titulo |-> r.crudos[i].titulo,
                  resumen |-> r.crudos[i].resumen] : i \in agregadas}
           /\ IF it.aborta
              THEN /\ pc' = "inicio"
                   /\ fin' = "Exception"
                   /\ idx' = idx
              ELSE /\ pc' = IF idx = Len(scrapers) THEN "combinar" ELSE "scrapers"
                   /\ fin' = fin
                   /\ idx' = idx + 1
  /\ UNCHANGED <<store, df_existente, hoy, corridas, snapshot, store_previo,
                 carga, fin_previo, reporte>>
  /\ UNCHANGED ayudantes

\* steps [3] and [4]: lines 475-510, after which the function returns and its
\* locals are gone
Procesar ==
  /\ pc = "combinar"
  /\ \E escritura \in {"ok", "Exception"} :
       \E df_final \in df_finales(df_existente, nuevas_noticias) :
         /\ store' = guardar_excel(df_final, escritura, store)
         /\ fin' = escritura
         /\ reporte' = IF escritura = "ok"
                       THEN [total |-> Len(df_final.filas),
                             nuevas |-> Len(nuevas_noticias)]
                       ELSE reporte
         /\ crudo' = {g \in crudo : g.noticia \in Rango(filas_de(store'))}
  /\ pc' = "inicio"
  /\ idx' = 1
  /\ df_existente' = DataFrame(columnas, <<>>)
  /\ urls_existentes' = {}
  /\ nuevas_noticias' = <<>>
  /\ UNCHANGED <<hoy, corridas, snapshot, store_previo, carga, fin_previo,
                 todas_fallan, fallo_aporto, intentos, surgidas>>
  /\ UNCHANGED ayudantes

Clasificar ==
  /\ salida = Ninguna
  /\ salida' = [op |-> "detectar_ciudad", valor |-> detectar_ciudad(texto)]
  /\ UNCHANGED <<texto, max_chars>>
  /\ UNCHANGED coordinador

Resumir ==
  /\ salida = Ninguna
  /\ salida' = [op |-> "obtener_resumen", valor |-> obtener_resumen(texto, max_chars)]
  /\ UNCHANGED <<texto, max_chars>>
  /\ UNCHANGED coordinador

\* one call of one scraper, the site answering with a page
Extraer ==
  /\ salida = Ninguna
  /\ \E i \in 1..Len(scrapers) :
       \E articulos \in Paginas(i) :
         salida' = [op |-> "scrape", i |-> i, articulos |-> articulos,
                    valor |-> scraper_func(i, Ok(articulos), hoy)]
  /\ UNCHANGED <<texto, max_chars>>
  /\ UNCHANGED coordinador

Next == Cargar \/ Iterar \/ Procesar

NextTexto == Clasificar \/ Resumir

NextExtraccion == Extraer

Spec == Init /\ [][Next]_vars

SpecSnapshot == InitSnapshot /\ [][Next]_vars

SpecVacio == InitVacio /\ [][Next]_vars

SpecTexto == InitTexto /\ [][NextTexto]_vars

SpecExtraccion == InitExtraccion /\ [][NextExtraccion]_vars

(***************************************************************************)
(* Properties.                                                             *)
(***************************************************************************)
\* a run has ended with its file written, and no later run has started
Completa == pc = "inicio" /\ fin = "ok"

\* the rows the current run loaded at step [1]
cargadas ==
  IF carga = "ok" THEN cargar_excel_existente(store_previo, "ok").filas ELSE <<>>

con_url(filas, u) == {i \in 1..Len(filas) : filas[i].url = u}

Minimo(S) == CHOOSE i \in S : \A j \in S : i <= j

\* C1: after every completed run the file holds at most one row per url,
\* whatever the file held before and whatever the sources surfaced.
C1_UrlUnica ==
  Completa =>
    \A i, j \in 1..Len(store.filas) :
      store.filas[i].url = store.filas[j].url => i = j

\* a completed run that found the same url twice in the file and saw a source
\* surface it again
C1_Testigo ==
  /\ Completa
  /\ Cardinality(con_url(filas_de(store_previo), "https://x/1")) = 2
  /\ "https://x/1" \in surgidas
  /\ Cardinality(con_url(store.filas, "https://x/1")) = 1

\* C2: when the load succeeded and a source surfaced the url of a loaded row,
\* the one row the file keeps for that url is the first loaded row with it,
\* every field as loaded.
C2_ExistenteIntacta ==
  (Completa /\ carga = "ok") =>
    \A u \in surgidas \cap urls_de(cargadas) :
      /\ Cardinality(con_url(store.filas, u)) = 1
      /\ \A i \in con_url(store.filas, u) :
           store.filas[i] = cargadas[Minimo(con_url(cargadas, u))]

C2_Testigo ==
  /\ Completa
  /\ carga = "ok"
  /\ "https://x/1" \in surgidas \cap urls_de(cargadas)
  /\ reporte.nuevas > 0

\* C3: under a fixed snapshot of the sources, a run that follows a completed
\* run and loads its file admits nothing and leaves the same set of rows.
C3_Idempotente ==
  (Completa /\ corridas >= 2 /\ fin_previo = "ok" /\ carga = "ok") =>
    /\ reporte.nuevas = 0
    /\ Rango(filas_de(store)) = Rango(filas_de(store_previo))

C3_Testigo ==
  /\ Completa
  /\ corridas >= 2
  /\ fin_previo = "ok"
  /\ carga = "ok"
  /\ Cardinality(surgidas) >= 2
  /\ reporte.nuevas = 0

\* C4: the sources are attempted in the declared order, each once, whichever
\* of them fail; a failing source adds nothing, and every url a source that
\* answered has surfaced is known to the run.
C4_TodasLasFuentes ==
  /\ intentos = SubSeq(scrapers, 1, Len(intentos))
  /\ pc = "scrapers" => Len(intentos) = idx - 1
  /\ (pc = "combinar" \/ (pc = "inicio" /\ corridas > 0)) => intentos = scrapers
  /\ ~fallo_aporto
  /\ pc \in {"scrapers", "combinar"} => surgidas \subseteq urls_existentes

\* a completed run in which Blu Radio failed (the url it always surfaces came
\* from Noticias Caracol) and Infobae, after it, was still processed
C4_Testigo ==
  /\ Completa
  /\ ~todas_fallan
  /\ \E i \in 1..Len(store.filas) :
       /\ store.filas[i].url = "https://x/1"
       /\ store.filas[i].fuente = "Noticias Caracol"
  /\ \E i \in 1..Len(store.filas) : store.filas[i].fuente = "Infobae"

\* C5, for a file whose urls are unique: a completed run in which every
\* source failed adds nothing and leaves in the file the rows it held before.
C5_TodasFallanNoCambia ==
  ( /\ Completa
    /\ todas_fallan
    /\ \A u \in urls_de(filas_de(store_previo)) :
         Cardinality(con_url(filas_de(store_previo), u)) = 1 ) =>
    /\ reporte.nuevas = 0
    /\ Rango(filas_de(store)) =
         Rango(cargar_excel_existente(store_previo, "ok").filas)

\* C6: a row in the file after one completed run is in the file after the
\* next completed run.
C6_SoloAgrega ==
  (Completa /\ fin_previo = "ok") =>
    Rango(filas_de(store_previo)) \subseteq Rango(filas_de(store))

\* the raw title and summary of every container a scraper can admit, and the
\* ones among them on which the relevance predicate holds
CrudosPosibles ==
  UNION {UNION {Rango(resultados[i][r][1].crudos) : r \in Respuestas(i)} :
           i \in 1..Len(scrapers)}

CrudosRelevantes ==
  {c \in CrudosPosibles :
     contiene_terminos_juventud(c.titulo) \/ contiene_terminos_juventud(c.resumen)}

\* C7: contiene_terminos_juventud held of the raw title or the raw summary of
\* every record a run admits, and, the first run having found no file, every
\* row of the file is such a record.
C7_SoloRelevantes ==
  /\ \A g \in crudo :
       [titulo |-> g.titulo, resumen |-> g.resumen] \in CrudosRelevantes
  /\ \A f \in Rango(filas_de(store)) : \E g \in crudo : g.noticia = f

\* a row of the file admitted on its summary alone, after two runs
C7_Testigo ==
  /\ Completa
  /\ corridas >= 2
  /\ \E g \in crudo :
       /\ g.noticia \in Rango(filas_de(store))
       /\ ~contiene_terminos_juventud(g.titulo)
       /\ contiene_terminos_juventud(g.resumen)

\* C8: every record a run admits into the file has a non-empty title.
C8_TituloNoVacio ==
  Completa =>
    \A g \in crudo : g.noticia \in Rango(filas_de(store)) => g.noticia.titulo # <<>>

\* C9: detectar_ciudad returns the name of the first key, in the order of
\* CIUDADES_COLOMBIA and leaving "colombia" out, that occurs in the
\* lower-cased text; "Colombia" when only "colombia" occurs; else the
\* sentinel.
C9_PrimeraClaveEspecifica ==
  salida.op = "detectar_ciudad" =>
    LET texto_lower == lower(texto)
        especificas == {k \in 1..Len(CIUDADES_COLOMBIA) :
                          /\ CIUDADES_COLOMBIA[k][1] # Colombia
                          /\ en(CIUDADES_COLOMBIA[k][1], texto_lower)}
    IN  salida.valor =
          IF especificas # {} THEN CIUDADES_COLOMBIA[Minimo(especificas)][2]
          ELSE IF en(Colombia, texto_lower) THEN "Colombia"
          ELSE "Sin identificar"

\* a text with "medellín" and "colombia" in it, classified Medellín
C9_Testigo ==
  /\ salida.op = "detectar_ciudad"
  /\ en(<<"m", "e", "d", "e", "l", "l", "í", "n">>, lower(texto))
  /\ en(Colombia, lower(texto))
  /\ salida.valor = "Medellín"

\* C10: obtener_resumen returns the normalized text when it is no longer than
\* max_chars, else a prefix of it of at most max_chars characters followed by
\* the ellipsis.
C10_ResumenAcotado ==
  salida.op = "obtener_resumen" =>
    LET limpio == limpiar_texto(texto)
    IN  \/ Len(limpio) <= max_chars /\ salida.valor = limpio
        \/ /\ Len(limpio) > max_chars
           /\ \E k \in 0..max_chars : salida.valor = SubSeq(limpio, 1, k) \o Elipsis

\* a text cut at max_chars and trimmed back to the last space before the cut
C10_Testigo ==
  /\ salida.op = "obtener_resumen"
  /\ max_chars > 0
  /\ Len(limpiar_texto(texto)) > max_chars
  /\ Len(salida.valor) < max_chars + Len(Elipsis)
  /\ Len(salida.valor) > Len(Elipsis)

\* C11: after every completed run the rows of the file are in descending order
\* of fecha: a row never comes before a row of a later day.
C11_FechaDescendente ==
  Completa =>
    \A i, j \in 1..Len(store.filas) :
      i < j => store.filas[i].fecha >= store.filas[j].fecha

\* a completed run that loaded a row of day 1 and admitted a record on day 2:
\* the concat has the loaded row first, the file has it last
C11_Testigo ==
  /\ Completa
  /\ carga = "ok"
  /\ reporte.nuevas > 0
  /\ Len(store.filas) >= 2
  /\ store.filas[1].fecha = 2
  /\ store.filas[Len(store.filas)] = cargadas[1]
  /\ cargadas[1].fecha = 1

\* C12: when pd.read_excel returns a file without the ciudad column, the run
\* goes on with every row of the file, in order, ciudad = "Sin identificar"
\* and its other fields as the file has them; when there is no file, the run
\* goes on with no rows.
C12_CargaCompatible ==
  pc \in {"scrapers", "combinar"} =>
    /\ (carga = "ok" /\ "ciudad" \notin Rango(store_previo.columnas)) =>
         /\ Len(df_existente.filas) = Len(store_previo.filas)
         /\ "ciudad" \in Rango(df_existente.columnas)
         /\ \A i \in 1..Len(store_previo.filas) :
              /\ df_existente.filas[i].ciudad = "Sin identificar"
              /\ \A c \in Rango(store_previo.columnas) :
                   df_existente.filas[i][c] = store_previo.filas[i][c]
    /\ carga = "ausente" => df_existente.filas = <<>>

\* the rows of a file written before the ciudad column existed, loaded
C12_Testigo ==
  /\ pc = "scrapers"
  /\ carga = "ok"
  /\ "ciudad" \notin Rango(store_previo.columnas)
  /\ Len(df_existente.filas) = 1
  /\ df_existente.filas[1].ciudad = "Sin identificar"
  /\ df_existente.filas[1].url = "https://x/1"

\* f"{titulo} {resumen}"
texto_completo(c) == c.titulo \o <<" ">> \o c.resumen

relevante_por_separado(c) ==
  contiene_terminos_juventud(c.titulo) \/ contiene_terminos_juventud(c.resumen)

relevante_en_conjunto(c) == contiene_terminos_juventud(texto_completo(c))

\* C13, as stated: the containers of a page that reach noticias.append are
\* the ones that reach the filter with a title and a summary whose
\* concatenation contiene_terminos_juventud holds of.
C13_AdmitidoSiConcatenado ==
  salida.op = "scrape" =>
    salida.valor.crudos = SelectSeq(salida.valor.candidatos, relevante_en_conjunto)

\* C13, amended: the containers of a page that reach noticias.append are the
\* ones that reach the filter with a title or a summary, each on its own,
\* that contiene_terminos_juventud holds of; it then holds of the
\* concatenation too, but not the other way round.
C13_AdmitidoSiTituloOResumen ==
  salida.op = "scrape" =>
    /\ salida.valor.crudos = SelectSeq(salida.valor.candidatos, relevante_por_separado)
    /\ \A k \in 1..Len(salida.valor.crudos) :
         relevante_en_conjunto(salida.valor.crudos[k])

\* a page with a container admitted on its summary alone and one discarded
\* though the term "menor de edad" is in its concatenated text
C13_Testigo ==
  /\ salida.op = "scrape"
  /\ \E k \in 1..Len(salida.valor.crudos) :
       /\ ~contiene_terminos_juventud(salida.valor.crudos[k].titulo)
       /\ contiene_terminos_juventud(salida.valor.crudos[k].resumen)
  /\ \E k \in 1..Len(salida.valor.candidatos) :
       /\ relevante_en_conjunto(salida.valor.candidatos[k])
       /\ ~relevante_por_separado(salida.valor.candidatos[k])
  /\ Len(salida.valor.noticias) = 1

\* the link source i reads of a container is there and is not empty
enlace_resoluble(i, art) ==
  IF scrapers[i] = "Infobae" /\ art.name = "a"
  THEN art.href # <<>> /\ art.href[1].s # ""
  ELSE art.a # <<>> /\ art.a[1].href.s # ""

\* C14: a scraper returns no more records than its page has containers with
\* a link that is there and not empty; from a page without such a container
\* it returns none.
C14_SinEnlaceSinRegistro ==
  salida.op = "scrape" =>
    Len(salida.valor.noticias) <=
      Cardinality({k \in 1..Len(salida.articulos) :
                     enlace_resoluble(salida.i, salida.articulos[k])})

\* C15: while a run is between its load and its guardar_excel the file is as
\* the run found it; the file is written only by the step that ends the run,
\* after all seven sources were attempted, with a frame that is the loaded
\* and the admitted rows concatenated, deduplicated and sorted; so a run
\* writes at most once.
C15_EscrituraUnicaAlFinal ==
  /\ [](pc \in {"scrapers", "combinar"} => (store = store_previo /\ fin = "en curso"))
  /\ [][(store' # store \/ (fin # "ok" /\ fin' = "ok")) =>
          /\ pc = "combinar"
          /\ intentos = scrapers
          /\ store = store_previo
          /\ pc' = "inicio"
          /\ \E df \in df_finales(df_existente, nuevas_noticias) :
               store' = Libro(seleccionar(df))]_vars

\* a second run that has replaced the file it loaded by one with more rows
C15_Testigo ==
  /\ Completa
  /\ corridas = 2
  /\ carga = "ok"
  /\ store # store_previo
  /\ reporte.nuevas > 0
  /\ intentos = scrapers

\* C16: the ciudad of a record scrape_alertabogota returns is "Bogotá" when
\* detectar_ciudad gives the sentinel for its title and summary, and what
\* detectar_ciudad gives otherwise, so it is never the sentinel; the ciudad of
\* a record any other scraper returns is what detectar_ciudad gives, the
\* sentinel included.
C16_BogotaPorDefecto ==
  salida.op = "scrape" =>
    \A k \in 1..Len(salida.valor.noticias) :
      LET n == salida.valor.noticias[k]
          detectada == detectar_ciudad(texto_completo(salida.valor.crudos[k]))
      IN  IF n.fuente = "Alerta Bogotá"
          THEN /\ n.ciudad # "Sin identificar"
               /\ n.ciudad = IF detectada = "Sin identificar" THEN "Bogotá"
                             ELSE detectada
          ELSE n.ciudad = detectada

\* scrape_alertabogota returning a record without a city in its text, set to
\* Bogotá, and one with Cali in its text, left as Cali
C16_Testigo ==
  /\ salida.op = "scrape"
  /\ scrapers[salida.i] = "Alerta Bogotá"
  /\ Len(salida.valor.noticias) = 2
  /\ detectar_ciudad(texto_completo(salida.valor.crudos[1])) = "Sin identificar"
  /\ salida.valor.noticias[1].ciudad = "Bogotá"
  /\ salida.valor.noticias[2].ciudad = "Cali"

\* under a fixed snapshot: the records the sources returned in the run that
\* has just ended, in the order of scrapers and, within a source, of its page
RECURSIVE devueltas(_)
devueltas(i) ==
  IF i = 0 THEN <<>>
  ELSE devueltas(i - 1) \o resultados[i][snapshot[i]][hoy].noticias

\* C17: at the end of a completed run the total reported is the number of
\* rows of the file, and is the number of distinct urls among the rows loaded
\* plus the number reported as new; the rows of the file whose url was not
\* among the loaded ones are as many as reported new, their urls are the urls
\* the sources returned and the load did not have, and each is the first
\* record with its url in the order of scrapers and of the pages.
C17_IdentidadDeConteo ==
  Completa =>
    LET previas == urls_de(cargadas)
        todas == devueltas(Len(scrapers))
        agregadas == {k \in 1..Len(store.filas) : store.filas[k].url \notin previas}
    IN  /\ reporte.total = Len(store.filas)
        /\ reporte.total = Cardinality(previas) + reporte.nuevas
        /\ Cardinality(agregadas) = reporte.nuevas
        /\ {store.filas[k].url : k \in agregadas} = urls_de(todas) \ previas
        /\ \A k \in agregadas :
             store.filas[k] = todas[Minimo(con_url(todas, store.filas[k].url))]

\* a run that loaded two rows with one url between them and added records;
\* https://x/1, which Blu Radio and then two containers of Noticias Caracol
\* returned, stays out as loaded
C17_Testigo ==
  /\ Completa
  /\ Len(cargadas) = 2
  /\ Cardinality(urls_de(cargadas)) = 1
  /\ reporte.nuevas = 2
  /\ reporte.total = 3
  /\ Cardinality(con_url(devueltas(Len(scrapers)), "https://x/1")) = 3

\* a run that found no file: https://x/1 goes to Blu Radio, the first of the
\* three that returned it
C17_TestigoAtribucion ==
  /\ Completa
  /\ carga = "ausente"
  /\ Cardinality(con_url(devueltas(Len(scrapers)), "https://x/1")) = 3
  /\ \E k \in 1..Len(store.filas) :
       /\ store.filas[k].url = "https://x/1"
       /\ store.filas[k].fuente = "Blu Radio"
  /\ reporte.nuevas = 3

====
